---- MODULE Spec2Model ----
(***************************************************************************)
(* A model of convert-stw (cmd/convert-stw/main.go): the single-pass       *)
(* decoder of STWriter documents.  Bytes are the integers 0..255.  The     *)
(* reader's stream is determined byte by byte as the decoder consumes it:  *)
(* `input` is the prefix consumed so far and `eof` says that the stream    *)
(* has ended right after it.                                               *)
(***************************************************************************)
EXTENDS Integers, Sequences, FiniteSets

VARIABLES
    input,      \* bytes the decoder has consumed from inDoc so far
    eof,        \* inDoc has reported end of input
    phase,      \* "start" | "body" | "done" | "fatal": position in convertStw
    hdrLen,     \* bytes consumed by readUntil (the body starts after them)
    opStart,    \* bytes consumed before the latest loop iteration began
    settings,   \* the documentSettings record
    out,        \* bytes written to outDoc (the bufio.Writer)
    sink,       \* bytes that reached the output file (written by Flush)
    log         \* what went to the log channel, in order

vars == <<input, eof, phase, hdrLen, opStart, settings, out, sink, log>>

----------------------------------------------------------------------------
(* Bounds of the model.                                                    *)

\* longest run of junk bytes in front of the file header
MaxPre == 2
\* body bytes decoded after a header that follows junk
MaxTail == 1
\* body bytes of a document drawn from MixedBytes
MaxBody == 4
\* body bytes of a document drawn from TextBytes
MaxText == 6

----------------------------------------------------------------------------
(* Byte strings.                                                           *)

SeqsUpTo(S, n) == UNION {[1..k -> S] : k \in 0..n}

\* the header with the slip of one more text byte, "Do Run Run STWRITER.PRG \x00"
MagicPadded ==
    <<68, 111, 32, 82, 117, 110, 32, 82, 117, 110, 32, 83,
      84, 87, 82, 73, 84, 69, 82, 46, 80, 82, 71, 32, 0>>

\* "Do Run Run STWRITER.PRG\x00"
Magic ==
    <<68, 111, 32, 82, 117, 110, 32, 82, 117, 110, 32, 83,
      84, 87, 82, 73, 84, 69, 82, 46, 80, 82, 71, 0>>

\* "COMMENT: "
CommentMarker == <<67, 79, 77, 77, 69, 78, 84, 58, 32>>

\* make([]byte, n): n zero bytes
MakeBytes(n) == [i \in 1..n |-> 0]

\* copy(dst, src): overwrites the first min(len(dst), len(src)) bytes of dst
Copy(dst, src) ==
    [i \in 1..Len(dst) |-> IF i <= Len(src) THEN src[i] ELSE dst[i]]

\* IsPrint with the slip of no lower bound (b < 0x7f)
IsPrintBelow(b) ==
    \/ b < 127
    \/ b >= 161 /\ b <= 255 /\ b # 173

\* strconv.IsPrint(rune(b)) for a byte b (a Latin-1 code point)
IsPrint(b) ==
    \/ b >= 32 /\ b < 127
    \/ b >= 161 /\ b <= 255 /\ b # 173

----------------------------------------------------------------------------
(* The inputs.  The junk in front of the header is over PreBytes; a body   *)
(* is over MixedBytes (every kind of byte, short) or over TextBytes (text  *)
(* and line breaks, longer).                                               *)

\* 'D' restarts a match, 'x' never matches
PreBytes == {68, 120}

\* what may follow the junk: the header, the header without its NUL, the
\* header with a wrong last byte, nothing
HeaderVariants ==
    {Magic, SubSeq(Magic, 1, Len(Magic) - 1),
     SubSeq(Magic, 1, Len(Magic) - 1) \o <<32>>, <<>>}

HeaderInputs ==
    {pre \o v : pre \in SeqsUpTo(PreBytes, MaxPre), v \in HeaderVariants}

\* NUL, ' ', '-', '0', '1'
OperandBytes == {0, 32, 45, 48, 49}

\* bytes of a terminated operand: NUL, 0x03, 0x06, 0x18, 'A', 'B'
StringBytes == {0, 3, 6, 24, 65, 66}

\* bytes with no case of their own: 0x01, 0x1a, 'A', 'B', 'C', 'D'
DefaultBytes == {1, 26, 65, 66, 67, 68}

TextBytes == {0, 16, 65, 66, 67, 68}

MixedBytes == (0..255) \ {26, 67, 68}

Body(s, h) == SubSeq(s, h + 1, Len(s))

\* the documents of the model: s is consumed input, h its header part
Allowed(s, h) ==
    LET b == Body(s, h)
    IN  \/ Len(b) <= MaxTail
        \/ /\ h = Len(Magic)
           /\ \/ Len(b) <= MaxBody /\ \A i \in 1..Len(b) : b[i] \in MixedBytes
              \/ Len(b) <= MaxText /\ \A i \in 1..Len(b) : b[i] \in TextBytes

----------------------------------------------------------------------------
(* The readers.                                                            *)

RECURSIVE Scan(_, _, _, _)
\* the loop of readUntil: i - 1 bytes of s are consumed, mIdx bytes matched
Scan(s, match, i, mIdx) ==
    IF mIdx >= Len(match) THEN [found |-> TRUE, n |-> i - 1]
    ELSE IF i > Len(s) THEN [found |-> FALSE, n |-> Len(s)]
    ELSE IF s[i] = match[mIdx + 1] THEN Scan(s, match, i + 1, mIdx + 1)
    ELSE Scan(s, match, i + 1, 0)

\* readUntil with the slip of stopping one byte early (mIdx < len(match) - 1)
ReadUntilEarly(s, match) == Scan(s, SubSeq(match, 1, Len(match) - 1), 1, 0)

\* readUntil on a stream that holds s and then ends: whether match was
\* found, and how many bytes were consumed
ReadUntil(s, match) == Scan(s, match, 1, 0)

\* the length in bytes of the white-space rune s begins with, 0 if none
\* (unicode.IsSpace on the UTF-8 decoding of the Go string)
LeadSpace(s) ==
    IF Len(s) >= 1 /\ s[1] \in {9, 10, 11, 12, 13, 32} THEN 1
    ELSE IF Len(s) >= 2 /\ s[1] = 194 /\ s[2] \in {133, 160} THEN 2
    ELSE IF /\ Len(s) >= 3
            /\ \/ s[1] = 225 /\ s[2] = 154 /\ s[3] = 128
               \/ s[1] = 226 /\ s[2] = 128 /\ s[3] \in (128..138) \cup {168, 169, 175}
               \/ s[1] = 226 /\ s[2] = 129 /\ s[3] = 159
               \/ s[1] = 227 /\ s[2] = 128 /\ s[3] = 128
         THEN 3
    ELSE 0

\* the length in bytes of the white-space rune s ends with, 0 if none
TrailSpace(s) ==
    LET n == Len(s)
    IN  IF n >= 1 /\ LeadSpace(SubSeq(s, n, n)) = 1 THEN 1
        ELSE IF n >= 2 /\ LeadSpace(SubSeq(s, n - 1, n)) = 2 THEN 2
        ELSE IF n >= 3 /\ LeadSpace(SubSeq(s, n - 2, n)) = 3 THEN 3
        ELSE 0

RECURSIVE TrimLeft(_)
TrimLeft(s) ==
    IF LeadSpace(s) = 0 THEN s
    ELSE TrimLeft(SubSeq(s, LeadSpace(s) + 1, Len(s)))

RECURSIVE TrimRight(_)
TrimRight(s) ==
    IF TrailSpace(s) = 0 THEN s
    ELSE TrimRight(SubSeq(s, 1, Len(s) - TrailSpace(s)))

\* TrimSpace with the slip of trimming the front only (strings.TrimLeft)
TrimSpaceFront(s) == TrimLeft(s)

\* strings.TrimSpace
TrimSpace(s) == TrimRight(TrimLeft(s))

RECURSIVE DigitsValue(_)
DigitsValue(s) ==
    IF s = <<>> THEN 0
    ELSE DigitsValue(SubSeq(s, 1, Len(s) - 1)) * 10 + (s[Len(s)] - 48)

\* Atoi with the slip of C's atoi: the digits at the front are the value,
\* whatever follows them
AtoiPrefix(s) ==
    LET signed == Len(s) >= 1 /\ s[1] \in {43, 45}
        digits == IF signed THEN SubSeq(s, 2, Len(s)) ELSE s
        n      == CHOOSE k \in 0..Len(digits) :
                      /\ \A i \in 1..k : digits[i] \in 48..57
                      /\ k = Len(digits) \/ digits[k + 1] \notin 48..57
        v      == DigitsValue(SubSeq(digits, 1, n))
    IN  IF n = 0 THEN [ok |-> FALSE, value |-> 0]
        ELSE IF s[1] = 45 THEN [ok |-> TRUE, value |-> 0 - v]
        ELSE [ok |-> TRUE, value |-> v]

\* strconv.Atoi on a string of fewer than 19 bytes: an optional sign, then
\* one or more digits
Atoi(s) ==
    LET signed == Len(s) >= 1 /\ s[1] \in {43, 45}
        digits == IF signed THEN SubSeq(s, 2, Len(s)) ELSE s
        good   == Len(digits) >= 1 /\ \A i \in 1..Len(digits) : digits[i] \in 48..57
    IN  IF ~good THEN [ok |-> FALSE, value |-> 0]
        ELSE IF s[1] = 45 THEN [ok |-> TRUE, value |-> 0 - DigitsValue(digits)]
        ELSE [ok |-> TRUE, value |-> DigitsValue(digits)]

\* readInt with the slip of ignoring a short read
ReadIntShort(buf, n) == Atoi(TrimSpace(buf))

\* readInt(fin, n) when io.ReadFull obtained buf (fewer than n bytes only
\* when the input ended)
ReadInt(buf, n) ==
    IF Len(buf) # n THEN [ok |-> FALSE, value |-> 0]
    ELSE Atoi(TrimSpace(buf))

RECURSIVE Collect(_, _, _, _)
\* the loop of readString: i - 1 bytes of s are consumed, buf is collected
Collect(s, terminate, i, buf) ==
    IF i > Len(s) THEN [ok |-> FALSE, buf |-> <<>>, n |-> Len(s)]
    ELSE IF s[i] = terminate THEN [ok |-> TRUE, buf |-> buf, n |-> i]
    ELSE Collect(s, terminate, i + 1, Append(buf, s[i]))

\* readString with the slip of a fixed NUL terminator
ReadStringNul(s, terminate) == Collect(s, 0, 1, MakeBytes(80))

\* readString on a stream that holds s and then ends
ReadString(s, terminate) == Collect(s, terminate, 1, MakeBytes(80))

----------------------------------------------------------------------------
(* The state.                                                              *)

\* the settings with the slip of a preset page length
PresetSettings ==
    [MarginTop |-> 0, MarginBottom |-> 0, MarginLeft |-> 0, MarginRight |-> 0,
     MarginLeft2 |-> 0, MarginRight2 |-> 0, PageLength |-> 66, Indent |-> 0,
     Font |-> 0, HeaderCapture |-> FALSE, Header |-> <<>>,
     FooterCapture |-> FALSE, Footer |-> <<>>, Center |-> FALSE,
     BlockRight |-> FALSE, Justified |-> FALSE, StartPageNum |-> 0,
     LineSpacing |-> 0, ParagraphSpacing |-> 0, SectionLevel |-> 0,
     ChainFile |-> <<>>]

\* var settings documentSettings: Go's zero value
ZeroSettings ==
    [MarginTop |-> 0, MarginBottom |-> 0, MarginLeft |-> 0, MarginRight |-> 0,
     MarginLeft2 |-> 0, MarginRight2 |-> 0, PageLength |-> 0, Indent |-> 0,
     Font |-> 0, HeaderCapture |-> FALSE, Header |-> <<>>,
     FooterCapture |-> FALSE, Footer |-> <<>>, Center |-> FALSE,
     BlockRight |-> FALSE, Justified |-> FALSE, StartPageNum |-> 0,
     LineSpacing |-> 0, ParagraphSpacing |-> 0, SectionLevel |-> 0,
     ChainFile |-> <<>>]

\* a line of the log: a diagnostic, or a reported header or footer
LogLine(tag, data) == [tag |-> tag, data |-> data]

Init ==
    /\ input = <<>>
    /\ eof = FALSE
    /\ phase = "start"
    /\ hdrLen = 0
    /\ opStart = 0
    /\ settings = ZeroSettings
    /\ out = <<>>
    /\ sink = <<>>
    /\ log = <<>>

Max(S) == CHOOSE x \in S : \A y \in S : y <= x

Min(S) == CHOOSE x \in S : \A y \in S : x <= y

\* how many operand bytes the model's documents allow after the byte c
Room(c) ==
    LET b == Body(input, hdrLen)
        header == hdrLen = Len(Magic)
        mixed == header /\ c \in MixedBytes /\ \A i \in 1..Len(b) : b[i] \in MixedBytes
        text == header /\ c \in TextBytes /\ \A i \in 1..Len(b) : b[i] \in TextBytes
    IN  Max({MaxTail} \cup (IF mixed THEN {MaxBody} ELSE {})
                      \cup (IF text THEN {MaxText} ELSE {})) - Len(b) - 1

\* one iteration of the main loop consumes `bytes`; `ended` says that the
\* input ended inside it
Consume(bytes, ended) ==
    /\ Allowed(input \o bytes, hdrLen)
    /\ input' = input \o bytes
    /\ eof' = ended
    /\ opStart' = Len(input)
    /\ UNCHANGED <<phase, hdrLen, sink>>

\* ReadByte succeeded and returned c
Reading(c) == phase = "body" /\ ~eof /\ Room(c) >= 0

----------------------------------------------------------------------------
(* convertStw up to the main loop.                                         *)

FindHeader ==
    /\ phase = "start"
    /\ \E h \in HeaderInputs :
          LET r == ReadUntil(h, Magic)
          IN  /\ input' = SubSeq(h, 1, r.n)
              /\ hdrLen' = r.n
              /\ opStart' = r.n
              /\ eof' = ~r.found
              /\ phase' = IF r.found THEN "body" ELSE "fatal"
              /\ log' = IF r.found
                        THEN Append(log, LogLine("SEARCH", <<>>))
                        ELSE log \o <<LogLine("SEARCH", <<>>), LogLine("FATAL", <<>>)>>
    /\ UNCHANGED <<settings, out, sink>>

----------------------------------------------------------------------------
(* The cases of the switch, as functions of the settings and the output.   *)

\* case 0x00 with the slip of ending the captures as well
EndLineClearsCapture(st) ==
    [st EXCEPT !.Center = FALSE, !.BlockRight = FALSE,
               !.FooterCapture = FALSE, !.HeaderCapture = FALSE]

\* case 0x00: the line oriented flags are turned off
EndLine(st) == [st EXCEPT !.Center = FALSE, !.BlockRight = FALSE]

\* case 0x00: outDoc.WriteByte('\n')
WriteNewline(o) == Append(o, 10)

\* case 0x10 with the slip of writing a single newline
WriteParagraphOnce(o) == Append(o, 10)

\* case 0x10: outDoc.Write([]byte("\n\n"))
WriteParagraph(o) == o \o <<10, 10>>

\* case 0x0b: outDoc.Write([]byte("COMMENT: "))
WriteComment(o) == o \o CommentMarker

\* case 0x03 with the slip of a plain on/off toggle of Center
ToggleCenterOnOff(st) == [st EXCEPT !.Center = ~st.Center]

\* case 0x03
ToggleCenter(st) ==
    IF st.Center
    THEN [st EXCEPT !.Center = FALSE, !.BlockRight = TRUE]
    ELSE [st EXCEPT !.Center = TRUE]

\* case 0x06
ToggleFooter(st) ==
    IF st.FooterCapture
    THEN [st EXCEPT !.FooterCapture = FALSE]
    ELSE [st EXCEPT !.FooterCapture = TRUE, !.Footer = MakeBytes(80)]

\* case 0x08
ToggleHeader(st) ==
    IF st.HeaderCapture
    THEN [st EXCEPT !.HeaderCapture = FALSE]
    ELSE [st EXCEPT !.HeaderCapture = TRUE, !.Header = MakeBytes(80)]

\* the else branch of a numeric case: the field takes the value read ("" is
\* case 0x0f, which stores nothing; Justified is true for the value 1)
SetField(st, field, value) ==
    IF field = "" THEN st
    ELSE IF field = "Justified" THEN [st EXCEPT !.Justified = (value = 1)]
    ELSE [st EXCEPT ![field] = value]

\* case 0x16: copy(settings.ChainFile, filename)
SetChainFile(st, filename) ==
    [st EXCEPT !.ChainFile = Copy(st.ChainFile, filename)]

\* the default case with the slip of testing HeaderCapture first
CaptureHeaderFirst(st, b) ==
    IF ~IsPrint(b) THEN st
    ELSE IF st.HeaderCapture THEN [st EXCEPT !.Header = Append(st.Header, b)]
    ELSE IF st.FooterCapture THEN [st EXCEPT !.Footer = Append(st.Footer, b)]
    ELSE st

\* the default case, settings: a printable byte is captured
Capture(st, b) ==
    IF ~IsPrint(b) THEN st
    ELSE IF st.FooterCapture THEN [st EXCEPT !.Footer = Append(st.Footer, b)]
    ELSE IF st.HeaderCapture THEN [st EXCEPT !.Header = Append(st.Header, b)]
    ELSE st

\* the default case with the slip of writing captured bytes too
PassThroughAlways(st, o, b) == IF IsPrint(b) THEN Append(o, b) ELSE o

\* the default case, output: a printable byte outside a capture is written
PassThrough(st, o, b) ==
    IF IsPrint(b) /\ ~st.FooterCapture /\ ~st.HeaderCapture
    THEN Append(o, b)
    ELSE o

----------------------------------------------------------------------------
(* The main loop: one action for each case of the switch.                  *)

\* a case that reads no operand
Plain(c, st, o, lg) ==
    /\ Reading(c)
    /\ Consume(<<c>>, FALSE)
    /\ settings' = st
    /\ out' = o
    /\ log' = lg

\* a case that calls readInt(inDoc, n) and stores the value in `field`
Numeric(c, n, field) ==
    /\ Reading(c)
    /\ \E buf \in SeqsUpTo(OperandBytes, Min({n, Room(c)})) :
          LET r == ReadInt(buf, n)
          IN  /\ Consume(<<c>> \o buf, Len(buf) < n)
              /\ settings' = IF r.ok THEN SetField(settings, field, r.value)
                             ELSE settings
              /\ log' = IF r.ok THEN log ELSE Append(log, LogLine("ERROR", <<>>))
    /\ out' = out

\* a case that calls readString(inDoc, terminate): rest is what the input
\* holds up to the terminator, or up to its end
Terminated(c, terminate, keep) ==
    /\ Reading(c)
    /\ \E rest \in SeqsUpTo(StringBytes, Room(c)) :
          LET r == ReadString(rest, terminate)
          IN  /\ r.n = Len(rest)
              /\ Consume(<<c>> \o rest, ~r.ok)
              /\ settings' = IF r.ok /\ keep THEN SetChainFile(settings, r.buf)
                             ELSE settings
              /\ log' = IF r.ok THEN log ELSE Append(log, LogLine("ERROR", <<>>))
    /\ out' = out

\* case 0x0b with the slip of diverting the marker during a capture
CommentCaptured ==
    Plain(11,
          IF settings.FooterCapture
          THEN [settings EXCEPT !.Footer = settings.Footer \o CommentMarker]
          ELSE IF settings.HeaderCapture
          THEN [settings EXCEPT !.Header = settings.Header \o CommentMarker]
          ELSE settings,
          IF settings.FooterCapture \/ settings.HeaderCapture
          THEN out
          ELSE WriteComment(out),
          log)

LineEnd == Plain(0, EndLine(settings), WriteNewline(out), log)

BottomMargin == Numeric(2, 3, "MarginBottom")

CenterToggle == Plain(3, ToggleCenter(settings), out, log)

ParagraphSpacing == Numeric(4, 2, "ParagraphSpacing")

PageEject == Plain(5, settings, out, log)

FooterToggle ==
    Plain(6, ToggleFooter(settings), out,
          IF settings.FooterCapture
          THEN Append(log, LogLine("FOOTER", settings.Footer))
          ELSE log)

FontChange == Numeric(7, 2, "Font")

HeaderToggle ==
    Plain(8, ToggleHeader(settings), out,
          IF settings.HeaderCapture
          THEN Append(log, LogLine("HEADER", settings.Header))
          ELSE log)

ParagraphIndent == Numeric(9, 2, "Indent")

Justification == Numeric(10, 2, "Justified")

Comment == Plain(11, settings, WriteComment(out), log)

LeftMargin == Numeric(12, 3, "MarginLeft")

Column2Left == Numeric(13, 3, "MarginLeft2")

Column2Right == Numeric(14, 3, "MarginRight2")

PrinterCode == Numeric(15, 3, "")

Paragraph == Plain(16, settings, WriteParagraph(out), log)

StartPage == Numeric(17, 3, "StartPageNum")

RightMargin == Numeric(18, 3, "MarginRight")

LineSpacing == Numeric(19, 1, "LineSpacing")

TopMargin == Numeric(20, 3, "MarginTop")

SectionLevel == Numeric(21, 1, "SectionLevel")

ChainFile == Terminated(22, 0, TRUE)

PageWait == Plain(23, settings, out, log)

EscapeBlock == Terminated(24, 24, FALSE)

PageLength == Numeric(25, 3, "PageLength")

DefaultByte ==
    \E b \in DefaultBytes :
        Plain(b, Capture(settings, b), PassThrough(settings, out, b), log)

\* ReadByte fails (the input has ended): the loop is left, outDoc is flushed
Finish ==
    /\ phase = "body"
    /\ phase' = "done"
    /\ eof' = TRUE
    /\ sink' = sink \o out
    /\ UNCHANGED <<input, hdrLen, opStart, settings, out, log>>

Next ==
    \/ FindHeader
    \/ LineEnd
    \/ BottomMargin
    \/ CenterToggle
    \/ ParagraphSpacing
    \/ PageEject
    \/ FooterToggle
    \/ FontChange
    \/ HeaderToggle
    \/ ParagraphIndent
    \/ Justification
    \/ Comment
    \/ LeftMargin
    \/ Column2Left
    \/ Column2Right
    \/ PrinterCode
    \/ Paragraph
    \/ StartPage
    \/ RightMargin
    \/ LineSpacing
    \/ TopMargin
    \/ SectionLevel
    \/ ChainFile
    \/ PageWait
    \/ EscapeBlock
    \/ PageLength
    \/ DefaultByte
    \/ Finish

Spec == Init /\ [][Next]_vars

\* the program runs on until it returns or exits
FairSpec == Spec /\ WF_vars(Next)

----------------------------------------------------------------------------
(* What the claims speak of.                                               *)

\* m occurs in s as a contiguous substring
Contains(s, m) ==
    \E i \in 0..(Len(s) - Len(m)) : SubSeq(s, i + 1, i + Len(m)) = m

\* the index of the last byte of the first occurrence of m in s
FirstEnd(s, m) ==
    Min({i + Len(m) : i \in {j \in 0..(Len(s) - Len(m)) :
                                 SubSeq(s, j + 1, j + Len(m)) = m}})

\* the bytes decoded after the header
TheBody == Body(input, hdrLen)

\* the main loop has run, and its latest iteration dispatched the byte c
Handled(c) ==
    /\ phase \in {"body", "done"}
    /\ Len(input) > opStart
    /\ input[opStart + 1] = c

\* the bytes the latest iteration consumed after the dispatched byte
LastOperand == SubSeq(input, opStart + 2, Len(input))

\* this step is an iteration of the main loop that dispatches the byte c
Dispatch(c) ==
    /\ phase = "body"
    /\ Len(input') > Len(input)
    /\ input'[Len(input) + 1] = c

\* the bytes this step consumes after the dispatched byte
Operand == SubSeq(input', Len(input) + 2, Len(input'))

\* the bytes that have a case of their own in the switch
CaseCodes == {0} \cup (2..25)

----------------------------------------------------------------------------
(* C1..C10                                                                 *)

\* C1: whenever the input holds the magic sequence, whatever precedes it,
\* readUntil succeeds and decoding starts right after the (first) sequence.
C1_HeaderFoundAnywhere ==
    (phase # "start" /\ Contains(input, Magic))
        => (phase # "fatal" /\ hdrLen = FirstEnd(input, Magic))

\* C2: an input without the magic sequence ends in the fatal "header not
\* found" state: the main loop is never entered, nothing is written.
C2_NoHeaderIsFatal ==
    (phase # "start" /\ ~Contains(input, Magic))
        => /\ phase = "fatal"
           /\ log[Len(log)] = LogLine("FATAL", <<>>)
           /\ hdrLen = Len(input) /\ opStart = Len(input)
           /\ settings = ZeroSettings
           /\ out = <<>> /\ sink = <<>>

C2_Witness ==
    /\ phase = "fatal"
    /\ input = <<120>> \o SubSeq(Magic, 1, Len(Magic) - 1)
    /\ ~Contains(input, Magic)

\* C3: the header, then 0x06 0x06: the footer that is reported has zero
\* bytes, and footer capture is off afterwards.
C3_DoubleToggleEmptyFooter ==
    (phase = "body" /\ TheBody = <<6, 6>>)
        => /\ ~settings.FooterCapture
           /\ log[Len(log)] = LogLine("FOOTER", <<>>)

\* C4: Center and BlockRight are never both true.
C4_CenterExcludesBlockRight == ~(settings.Center /\ settings.BlockRight)

\* C5: from Center and BlockRight both false, 0x03 gives Center alone;
\* 0x03 again gives BlockRight alone; 0x00 makes both false.
C5_CenterSequencing ==
    [][/\ (Dispatch(3) /\ ~settings.Center /\ ~settings.BlockRight)
            => (settings'.Center /\ ~settings'.BlockRight)
       /\ (Dispatch(3) /\ settings.Center /\ ~settings.BlockRight)
            => (~settings'.Center /\ settings'.BlockRight)
       /\ Dispatch(0) => (~settings'.Center /\ ~settings'.BlockRight)]_vars

C5_Witness ==
    /\ phase = "body"
    /\ TheBody = <<3, 3, 0>>
    /\ ~settings.Center /\ ~settings.BlockRight

\* C6: 0x16, bytes b1..bn, 0x00: afterwards ChainFile is exactly b1..bn,
\* nothing else of the settings has changed and nothing was written.
C6_ChainFileCopied ==
    [][(Dispatch(22) /\ ~eof')
          => LET b == SubSeq(Operand, 1, Len(Operand) - 1)
             IN  /\ Operand[Len(Operand)] = 0
                 /\ settings' = [settings EXCEPT !.ChainFile = b]
                 /\ out' = out]_vars

\* the numeric cases of the switch: the code, the width of its operand and
\* the field it sets ("" for 0x0f, which sets none)
NumericCases ==
    {[code |-> 2, width |-> 3, field |-> "MarginBottom"],
     [code |-> 4, width |-> 2, field |-> "ParagraphSpacing"],
     [code |-> 7, width |-> 2, field |-> "Font"],
     [code |-> 9, width |-> 2, field |-> "Indent"],
     [code |-> 10, width |-> 2, field |-> "Justified"],
     [code |-> 12, width |-> 3, field |-> "MarginLeft"],
     [code |-> 13, width |-> 3, field |-> "MarginLeft2"],
     [code |-> 14, width |-> 3, field |-> "MarginRight2"],
     [code |-> 15, width |-> 3, field |-> ""],
     [code |-> 17, width |-> 3, field |-> "StartPageNum"],
     [code |-> 18, width |-> 3, field |-> "MarginRight"],
     [code |-> 19, width |-> 1, field |-> "LineSpacing"],
     [code |-> 20, width |-> 3, field |-> "MarginTop"],
     [code |-> 21, width |-> 1, field |-> "SectionLevel"],
     [code |-> 25, width |-> 3, field |-> "PageLength"]}

RECURSIVE Decimal(_)
\* the decimal digits of the natural number n
Decimal(n) ==
    IF n < 10 THEN <<48 + n>> ELSE Decimal(n \div 10) \o <<48 + (n % 10)>>

\* the operand fields of width w over OperandBytes that are a base-10
\* integer between blanks: blanks, an optional sign, zeros, the digits of
\* the value, blanks
FieldTable ==
    [w \in 1..3 |->
        {d \in {[bytes |-> [i \in 1..l |-> 32] \o sg \o [i \in 1..z |-> 48]
                              \o Decimal(m) \o [i \in 1..r |-> 32],
                 value |-> IF sg = <<45>> THEN 0 - m ELSE m] :
                    l \in 0..2, sg \in {<<>>, <<43>>, <<45>>}, z \in 0..2,
                    m \in 0..999, r \in 0..2} :
            /\ Len(d.bytes) = w
            /\ \A i \in 1..w : d.bytes[i] \in OperandBytes}]

\* the field of a numeric case holds the value v
FieldHolds(field, v) ==
    IF field = "" THEN TRUE
    ELSE IF field = "Justified" THEN settings.Justified = (v = 1)
    ELSE settings[field] = v

\* C7: a numeric code of width w whose w operand bytes are a base-10
\* integer v between blanks (optionally signed) sets its field to v
\* (Justified: to v = 1; 0x0f: sets nothing), and no more than w operand
\* bytes are consumed, fewer only when the input ends; 0x0c with "010",
\* " 10" or "10 " sets MarginLeft to 10, 0x11 with "-1 " or "-10" sets a
\* negative StartPageNum.
C7_FixedWidthOperands ==
    /\ \A k \in NumericCases :
          Handled(k.code) =>
              /\ Len(LastOperand) <= k.width
              /\ Len(LastOperand) < k.width => eof
              /\ \A d \in FieldTable[k.width] :
                    LastOperand = d.bytes => FieldHolds(k.field, d.value)
    /\ (Handled(12) /\ LastOperand \in {<<48, 49, 48>>, <<32, 49, 48>>, <<49, 48, 32>>})
          => settings.MarginLeft = 10
    /\ (Handled(17) /\ LastOperand = <<45, 49, 32>>) => settings.StartPageNum = 0 - 1
    /\ (Handled(17) /\ LastOperand = <<45, 49, 48>>) => settings.StartPageNum = 0 - 10

C7_Witness ==
    /\ Handled(12)
    /\ LastOperand = <<49, 48, 32>>
    /\ settings.MarginLeft = 10
    /\ ~eof

\* C8: 0x07 and one more byte, then the end of the input: the settings
\* (Font) and the output are as before, and the run ends through the
\* flush, not fatally.
C8_ShortFontOperand ==
    [][/\ (Dispatch(7) /\ eof' /\ Len(Operand) = 1)
            => (settings' = settings /\ out' = out /\ phase' = "body")
       /\ (phase = "body" /\ eof)
            => (phase' = "done" /\ sink' = out /\ out' = out
                  /\ settings' = settings)]_vars

C8_Witness ==
    /\ phase = "done"
    /\ TheBody = <<65, 7, 49>>
    /\ settings.Font = 0
    /\ sink = <<65>>

\* C9: a default-case byte is appended to the output, unchanged, exactly
\* when it is printable and neither capture is active; otherwise a
\* default-case byte leaves the output as it is.
C9_PrintablePassThrough ==
    [][(phase = "body" /\ Len(input') > Len(input))
          => LET b == input'[Len(input) + 1]
             IN  (b \notin CaseCodes /\ Dispatch(b)) =>
                     out' = IF /\ IsPrint(b)
                               /\ ~settings.FooterCapture
                               /\ ~settings.HeaderCapture
                            THEN Append(out, b)
                            ELSE out]_vars

C9_Witness ==
    /\ phase = "body"
    /\ TheBody = <<65, 8, 66, 8>>
    /\ out = <<65>>

\* C10: a dispatched 0x00 appends one newline and a dispatched 0x10 two;
\* the header, "AB", 0x10, "CD", 0x00 gives AB\n\nCD\n, also in the sink
\* once the run is over.
C10_LineBreaks ==
    /\ [][/\ Dispatch(0) => out' = Append(out, 10)
          /\ Dispatch(16) => out' = out \o <<10, 10>>]_vars
    /\ [](TheBody = <<65, 66, 16, 67, 68, 0>>
            => /\ out = <<65, 66, 10, 10, 67, 68, 10>>
               /\ phase = "done" => sink = out)

C10_Witness ==
    /\ phase = "done"
    /\ TheBody = <<65, 66, 16, 67, 68, 0>>
    /\ sink = <<65, 66, 10, 10, 67, 68, 10>>

----------------------------------------------------------------------------
(* C11..C19                                                                *)

\* C11: the header and then the end of the input: nothing is written, and
\* every integer of the settings is 0, every flag false, every buffer empty.
C11_HeaderOnly ==
    (phase = "done" /\ TheBody = <<>>)
        => /\ out = <<>> /\ sink = <<>>
           /\ \A f \in {"MarginTop", "MarginBottom", "MarginLeft", "MarginRight",
                        "MarginLeft2", "MarginRight2", "PageLength", "Indent",
                        "Font", "StartPageNum", "LineSpacing",
                        "ParagraphSpacing", "SectionLevel"} : settings[f] = 0
           /\ \A f \in {"HeaderCapture", "FooterCapture", "Center",
                        "BlockRight", "Justified"} : settings[f] = FALSE
           /\ \A f \in {"Header", "Footer", "ChainFile"} : settings[f] = <<>>
           /\ DOMAIN settings =
                 {"MarginTop", "MarginBottom", "MarginLeft", "MarginRight",
                  "MarginLeft2", "MarginRight2", "PageLength", "Indent",
                  "Font", "StartPageNum", "LineSpacing", "ParagraphSpacing",
                  "SectionLevel", "HeaderCapture", "FooterCapture", "Center",
                  "BlockRight", "Justified", "Header", "Footer", "ChainFile"}

C11_Witness ==
    /\ phase = "done"
    /\ input = Magic
    /\ eof
    /\ sink = <<>>

\* the text of the file header, "Do Run Run STWRITER.PRG"
MagicText ==
    <<68, 111, 32, 82, 117, 110, 32, 82, 117, 110, 32, 83,
      84, 87, 82, 73, 84, 69, 82, 46, 80, 82, 71>>

\* C12 as stated: the header the decoder matches is 24 ASCII text bytes
\* and then one 0x00 byte, 25 bytes in all.
C12_MagicIs25Bytes ==
    phase \in {"body", "done"}
        => /\ hdrLen >= 25
           /\ input[hdrLen] = 0
           /\ \A i \in (hdrLen - 24)..(hdrLen - 1) : input[i] \in 32..126

\* C12, amended: the header the decoder matches is 23 ASCII text bytes
\* ("Do Run Run STWRITER.PRG") and then one 0x00 byte, 24 bytes in all.
C12_MagicIs24Bytes ==
    /\ Len(MagicText) = 23
    /\ \A i \in 1..Len(MagicText) : MagicText[i] \in 32..126
    /\ phase \in {"body", "done"}
          => /\ hdrLen >= 24
             /\ SubSeq(input, hdrLen - 23, hdrLen) = MagicText \o <<0>>

C12_Witness ==
    /\ phase = "body"
    /\ hdrLen = 24
    /\ input = MagicText \o <<0>>

\* the printable bytes: ASCII from the space to '~', Latin-1 from 0xa1 on
\* without the soft hyphen
PrintableBytes == (32..126) \cup ((161..255) \ {173})

\* C13: a printable default-case byte goes to exactly one place: the end
\* of Footer if footer capture is active, else the end of Header if header
\* capture is active, else the output; with both captures active (the
\* witness) it goes to Footer alone.
C13_DefaultRouting ==
    [][(phase = "body" /\ Len(input') > Len(input))
          => LET b == input'[Len(input) + 1]
             IN  (b \notin CaseCodes /\ b \in PrintableBytes) =>
                     IF settings.FooterCapture
                     THEN /\ settings' = [settings EXCEPT !.Footer = Append(@, b)]
                          /\ out' = out
                     ELSE IF settings.HeaderCapture
                     THEN /\ settings' = [settings EXCEPT !.Header = Append(@, b)]
                          /\ out' = out
                     ELSE /\ settings' = settings
                          /\ out' = Append(out, b)]_vars

C13_Witness ==
    /\ phase = "body"
    /\ TheBody = <<8, 6, 65>>
    /\ settings.HeaderCapture /\ settings.FooterCapture
    /\ settings.Footer = MakeBytes(80) \o <<65>>
    /\ settings.Header = MakeBytes(80)
    /\ out = <<>>

\* the other order of C13's two toggles
C13_WitnessFooterFirst ==
    /\ phase = "body"
    /\ TheBody = <<6, 8, 65>>
    /\ settings.HeaderCapture /\ settings.FooterCapture
    /\ settings.Footer = MakeBytes(80) \o <<65>>
    /\ settings.Header = MakeBytes(80)
    /\ out = <<>>

\* C14: a numeric code of width w followed by w bytes that are no base-10
\* integer: the settings and the output are as before, exactly the w bytes
\* are consumed (none is written or dispatched, a 0x00 among them
\* included), and decoding goes on with the byte after them.
C14_ParseFailureLocal ==
    [][\A k \in NumericCases :
          Dispatch(k.code) =>
              /\ Len(Operand) <= k.width
              /\ (/\ Len(Operand) = k.width
                  /\ ~\E d \in FieldTable[k.width] : d.bytes = Operand)
                    => /\ settings' = settings
                       /\ out' = out
                       /\ Len(input') = Len(input) + 1 + k.width
                       /\ opStart' = Len(input)
                       /\ phase' = "body" /\ ~eof']_vars

C14_Witness ==
    /\ phase = "body" /\ ~eof
    /\ TheBody = <<12, 49, 0, 48>>
    /\ Handled(12)
    /\ settings = ZeroSettings
    /\ out = <<>>

\* C15: on 0x18 the bytes up to and including the next 0x18 (or up to the
\* end of the input) are consumed, and the settings, the capture buffers
\* among them, and the output are as before.
C15_EscapeBlock ==
    [][Dispatch(24) =>
          /\ \A i \in 1..(Len(Operand) - 1) : Operand[i] # 24
          /\ ~eof' => (Len(Operand) >= 1 /\ Operand[Len(Operand)] = 24)
          /\ eof' => \A i \in 1..Len(Operand) : Operand[i] # 24
          /\ settings' = settings
          /\ out' = out
          /\ phase' = "body"]_vars

C15_Witness ==
    /\ phase = "body" /\ ~eof
    /\ TheBody = <<6, 24, 0, 24>>
    /\ Handled(24)
    /\ settings = [ZeroSettings EXCEPT !.FooterCapture = TRUE,
                                       !.Footer = MakeBytes(80)]
    /\ out = <<>>

\* an escape block holding text and a control code, in a longer document
C15_WitnessText ==
    /\ phase = "body" /\ ~eof
    /\ TheBody = <<24, 65, 3, 24>>
    /\ settings = ZeroSettings
    /\ out = <<>>

\* C16: for every input that holds the magic header the run is not fatal:
\* each iteration of the main loop consumes at least one byte, the end of
\* the input (inside an operand read or not) leads to the flush, and when
\* the run is over everything written is in the sink.
C16_Termination ==
    /\ []((phase # "start" /\ Contains(input, Magic))
            => /\ phase # "fatal"
               /\ phase = "done" \/ ENABLED Next
               /\ phase = "done" => sink = out)
    /\ [][phase = "body"
            => \/ Len(input') > Len(input) /\ phase' = "body"
               \/ phase' = "done" /\ sink' = out']_vars

\* what holds of the main loop once readUntil has found the header: it is
\* left after finitely many iterations, through the flush
C16_LoopTerminates ==
    /\ (phase = "body") ~> (phase = "done" /\ sink = out)
    /\ [][phase = "body"
            => \/ Len(input') > Len(input) /\ phase' = "body"
               \/ phase' = "done" /\ sink' = out']_vars
    /\ [][phase = "body" /\ eof => phase' = "done"]_vars

\* C17: every byte of the output and of the sink is a newline or a
\* printable byte; a step appends to the output nothing, the printable
\* byte it dispatched, one newline (0x00), two (0x10) or "COMMENT: "
\* (0x0b); a default-case byte that is not printable (0x01, 0x1a..0x1f)
\* changes neither the output nor the settings.
C17_OutputAlphabet ==
    /\ [](/\ \A i \in 1..Len(out) : out[i] = 10 \/ out[i] \in PrintableBytes
          /\ \A i \in 1..Len(sink) : sink[i] = 10 \/ sink[i] \in PrintableBytes
          /\ ({1} \cup (26..31)) \cap (PrintableBytes \cup CaseCodes) = {})
    /\ [][(phase = "body" /\ Len(input') > Len(input))
            => LET b == input'[Len(input) + 1]
               IN  /\ out' = out \o
                        (IF b = 0 THEN <<10>>
                         ELSE IF b = 16 THEN <<10, 10>>
                         ELSE IF b = 11 THEN <<67, 79, 77, 77, 69, 78, 84, 58, 32>>
                         ELSE IF b \in PrintableBytes /\ out' # out THEN <<b>>
                         ELSE <<>>)
                   /\ (b \notin CaseCodes /\ b \notin PrintableBytes)
                         => (settings' = settings /\ out' = out)]_vars

C17_Witness ==
    /\ phase = "done"
    /\ TheBody = <<1, 11, 65, 0>>
    /\ sink = <<67, 79, 77, 77, 69, 78, 84, 58, 32, 65, 10>>

\* the unassigned code 0x1a is discarded
C17_WitnessCtrlZ ==
    /\ phase = "body"
    /\ TheBody = <<26>>
    /\ out = <<>>
    /\ settings = ZeroSettings

\* how many operand bytes the iteration that dispatches c consumes of rest
OperandLen(c, rest) ==
    LET upTo(t) == IF \E i \in 1..Len(rest) : rest[i] = t
                   THEN Min({i \in 1..Len(rest) : rest[i] = t})
                   ELSE Len(rest)
    IN  IF \E k \in NumericCases : k.code = c
        THEN Min({(CHOOSE k \in NumericCases : k.code = c).width, Len(rest)})
        ELSE IF c = 22 THEN upTo(0)
        ELSE IF c = 24 THEN upTo(24)
        ELSE 0

RECURSIVE Dispatched(_)
\* the bytes of b that the main loop dispatches, operands left out
Dispatched(b) ==
    IF b = <<>> THEN <<>>
    ELSE <<b[1]>> \o Dispatched(SubSeq(b, 2 + OperandLen(b[1], Tail(b)), Len(b)))

\* how many times c occurs in s
Count(s, c) == Cardinality({i \in 1..Len(s) : s[i] = c})

\* C18: FooterCapture is true exactly when an odd number of 0x06 codes
\* has been dispatched, HeaderCapture exactly when an odd number of 0x08
\* codes has; a step that dispatches a byte other than 0x06 (0x08), with
\* whatever operand, leaves FooterCapture (HeaderCapture) as it was.
C18_CaptureParity ==
    /\ [](/\ settings.FooterCapture
                = (phase \in {"body", "done"}
                     /\ Count(Dispatched(TheBody), 6) % 2 = 1)
          /\ settings.HeaderCapture
                = (phase \in {"body", "done"}
                     /\ Count(Dispatched(TheBody), 8) % 2 = 1))
    /\ [][/\ settings'.FooterCapture = (settings.FooterCapture # Dispatch(6))
          /\ settings'.HeaderCapture = (settings.HeaderCapture # Dispatch(8))]_vars

\* 0x06, a line end while capturing, and a 0x06 read as an operand byte
C18_Witness ==
    /\ phase = "done"
    /\ TheBody = <<6, 0, 24, 6>>
    /\ settings.FooterCapture
    /\ ~settings.HeaderCapture

\* both captures on, a literal and a line end behind them
C18_WitnessBoth ==
    /\ TheBody = <<6, 8, 65, 0>>
    /\ settings.FooterCapture
    /\ settings.HeaderCapture

\* C19: while a capture is active, 0x00 still writes its newline, 0x10 its
\* two newlines and 0x0b "COMMENT: " to the output, and none of the three
\* touches Header or Footer; the output grows by nothing else, and a
\* capture buffer grows only by a printable default-case byte.
C19_ControlOutputIgnoresCapture ==
    [][(phase = "body" /\ Len(input') > Len(input)
          /\ (settings.FooterCapture \/ settings.HeaderCapture))
         => LET b == input'[Len(input) + 1]
            IN  /\ b = 0 => out' = out \o <<10>>
                /\ b = 16 => out' = out \o <<10, 10>>
                /\ b = 11 => out' = out \o <<67, 79, 77, 77, 69, 78, 84, 58, 32>>
                /\ b \in {0, 11, 16}
                      => /\ settings'.Header = settings.Header
                         /\ settings'.Footer = settings.Footer
                /\ b \notin {0, 11, 16} => out' = out
                /\ (b \in PrintableBytes /\ b \notin CaseCodes)
                      => \/ /\ settings.FooterCapture
                            /\ settings'.Footer = Append(settings.Footer, b)
                            /\ settings'.Header = settings.Header
                         \/ /\ ~settings.FooterCapture
                            /\ settings'.Header = Append(settings.Header, b)
                            /\ settings'.Footer = settings.Footer
                /\ (b \notin PrintableBytes /\ b \notin {6, 8})
                      => /\ settings'.Header = settings.Header
                         /\ settings'.Footer = settings.Footer]_vars

\* a footer capture across a line end, a paragraph, a comment and a literal
C19_Witness ==
    /\ phase = "done"
    /\ TheBody = <<6, 0, 16, 11>>
    /\ settings.FooterCapture
    /\ settings.Footer = MakeBytes(80)
    /\ sink = <<10, 10, 10, 67, 79, 77, 77, 69, 78, 84, 58, 32>>

\* a header capture: the literal is diverted, the comment marker is not
C19_WitnessHeader ==
    /\ TheBody = <<8, 65, 11>>
    /\ settings.HeaderCapture
    /\ settings.Header = Append(MakeBytes(80), 65)
    /\ out = <<67, 79, 77, 77, 69, 78, 84, 58, 32>>

====
